---- MODULE Spec2Model ----
(***************************************************************************)
(* Model of pkg/ans/ans.go: the SAP Alert Notification Service client.     *)
(*   - TranslateLogrusLogLevel : log level -> (severity, category)         *)
(*   - Event.MergeWithJSON     : json.Unmarshal onto an existing Event     *)
(*   - ANS.Send                : marshal, authenticate, POST, check status *)
(* JSON texts are modelled by their parsed form: a document is malformed,  *)
(* a top-level null, a top-level non-object, or an object that gives each  *)
(* known key a token (absent, null, string, number, other, object).        *)
(***************************************************************************)
EXTENDS Integers, Sequences, FiniteSets, TLC

VARIABLES
    level, severity, category, translated,      \* TranslateLogrusLogLevel
    event, pre, eventJSON, mergeErr, mpc,       \* Event.MergeWithJSON
    url, pc, sendEvent, requestBody, header,    \* ANS.Send, per call
    authResult, request, response, bodyReads, err, nSent

vars == <<level, severity, category, translated,
          event, pre, eventJSON, mergeErr, mpc,
          url, pc, sendEvent, requestBody, header,
          authResult, request, response, bodyReads, err, nSent>>

levelVars == <<level, severity, category, translated>>
mergeVars == <<event, pre, eventJSON, mergeErr, mpc>>
sendVars  == <<url, pc, sendEvent, requestBody, header,
               authResult, request, response, bodyReads, err, nSent>>

----------------------------------------------------------------------------
(* Bounds *)

MaxLevel == 60      \* logrus.Level is a uint32; levels 0..MaxLevel are drawn
MaxKeys  == 2       \* keys present in one merge document
MaxCalls == 2       \* Send calls that may run interleaved

----------------------------------------------------------------------------
(* Constants of ans.go and of the libraries it uses *)

authHeaderKey == "Authorization"

infoSeverity    == "INFO"
noticeSeverity  == "NOTICE"
warningSeverity == "WARNING"
errorSeverity   == "ERROR"
fatalSeverity   == "FATAL"

exceptionCategory    == "EXCEPTION"
alertCategory        == "ALERT"
notificationCategory == "NOTIFICATION"

eventPath == "/cf/producer/v1/resource-events"

StatusAccepted == 202

\* logrus.Level values (logrus.go: PanicLevel = iota, ...)
PanicLevel == 0
FatalLevel == 1
ErrorLevel == 2
WarnLevel  == 3
InfoLevel  == 4
DebugLevel == 5

----------------------------------------------------------------------------
(* TranslateLogrusLogLevel *)

Levels == 0..MaxLevel

\* a plausible slip: the warn case falls through to the error mapping
TranslateWarnAsError(l) ==
    CASE l = InfoLevel  -> <<infoSeverity, notificationCategory>>
      [] l = DebugLevel -> <<infoSeverity, notificationCategory>>
      [] l = WarnLevel  -> <<errorSeverity, exceptionCategory>>
      [] l = ErrorLevel -> <<errorSeverity, exceptionCategory>>
      [] l = FatalLevel -> <<fatalSeverity, exceptionCategory>>
      [] l = PanicLevel -> <<fatalSeverity, exceptionCategory>>
      [] OTHER          -> <<infoSeverity, notificationCategory>>

\* a plausible slip: the error case is given the fatal severity
TranslateErrorAsFatal(l) ==
    CASE l = InfoLevel  -> <<infoSeverity, notificationCategory>>
      [] l = DebugLevel -> <<infoSeverity, notificationCategory>>
      [] l = WarnLevel  -> <<warningSeverity, alertCategory>>
      [] l = ErrorLevel -> <<fatalSeverity, exceptionCategory>>
      [] l = FatalLevel -> <<fatalSeverity, exceptionCategory>>
      [] l = PanicLevel -> <<fatalSeverity, exceptionCategory>>
      [] OTHER          -> <<infoSeverity, notificationCategory>>

\* severity and category start as INFO/NOTIFICATION; the switch overrides them
TranslateLogrusLogLevel(l) ==
    CASE l = InfoLevel  -> <<infoSeverity, notificationCategory>>
      [] l = DebugLevel -> <<infoSeverity, notificationCategory>>
      [] l = WarnLevel  -> <<warningSeverity, alertCategory>>
      [] l = ErrorLevel -> <<errorSeverity, exceptionCategory>>
      [] l = FatalLevel -> <<fatalSeverity, exceptionCategory>>
      [] l = PanicLevel -> <<fatalSeverity, exceptionCategory>>
      [] OTHER          -> <<infoSeverity, notificationCategory>>

----------------------------------------------------------------------------
(* Go values of the Event model *)

\* a map[string]interface{}: nil, or a set of <<key, value>> entries
NilMap == [nil |-> TRUE, m |-> {}]
MakeMap(entries) == [nil |-> FALSE, m |-> entries]

\* a tag value json.Marshal cannot encode (a func or a channel)
Unsupported == "UNSUPPORTED"

MapKeys(entries) == {p[1] : p \in entries}

\* a *Resource: nil, or the Resource it points to
NilResource ==
    [nil |-> TRUE, resourceName |-> "", resourceType |-> "",
     resourceInstance |-> "", tags |-> NilMap]

\* reflect.New(Resource): a pointer to the zero Resource
NewResource == [NilResource EXCEPT !.nil = FALSE]

\* Event{}
ZeroEvent ==
    [eventType |-> "", eventTimestamp |-> 0, severity |-> "", category |-> "",
     subject |-> "", body |-> "", priority |-> 0, tags |-> NilMap,
     resource |-> NilResource]

StringFields == {"eventType", "severity", "category", "subject", "body"}
IntFields    == {"eventTimestamp", "priority"}
ScalarFields == StringFields \cup IntFields
EventFields  == ScalarFields \cup {"tags", "resource"}

ResourceStringFields == {"resourceName", "resourceType", "resourceInstance"}

\* the values the drawn events carry
SampleResource ==
    [nil |-> FALSE, resourceName |-> "a", resourceType |-> "a",
     resourceInstance |-> "", tags |-> MakeMap({<<"k1", "v1">>})]

SampleValue(f) ==
    CASE f \in StringFields -> "a"
      [] f \in IntFields    -> 1
      [] f = "tags"         -> MakeMap({<<"k1", "v1">>})
      [] f = "resource"     -> SampleResource

EventWith(S) == [f \in EventFields |-> IF f \in S THEN SampleValue(f) ELSE ZeroEvent[f]]

\* events with no field, one field, all but one field, or every field set
EventSamples ==
    {EventWith(S) : S \in {T \in SUBSET EventFields :
                               \/ Cardinality(T) <= 1
                               \/ Cardinality(T) >= Cardinality(EventFields) - 1}}

----------------------------------------------------------------------------
(* JSON documents in parsed form *)

\* the token a key of a scalar field carries
AbsentTok     == [t |-> "absent", s |-> "", n |-> 0]
NullTok       == [t |-> "null",   s |-> "", n |-> 0]
StringTok(x)  == [t |-> "string", s |-> x,  n |-> 0]
NumberTok(x)  == [t |-> "number", s |-> "", n |-> x]

\* the token of a map-valued key: an object is a set of <<key, value>> members
AbsentMapTok   == [t |-> "absent", o |-> {}]
NullMapTok     == [t |-> "null",   o |-> {}]
ObjectMapTok(x) == [t |-> "object", o |-> x]
OtherMapTok    == [t |-> "other",  o |-> {}]     \* a string, number, array, bool

\* the token of the "resource" key
AbsentResTok ==
    [t |-> "absent", resourceName |-> AbsentTok, resourceType |-> AbsentTok,
     resourceInstance |-> AbsentTok, tags |-> AbsentMapTok]
NullResTok  == [AbsentResTok EXCEPT !.t = "null"]
OtherResTok == [AbsentResTok EXCEPT !.t = "other"]
ObjectResTok(name, type, inst, tgs) ==
    [t |-> "object", resourceName |-> name, resourceType |-> type,
     resourceInstance |-> inst, tags |-> tgs]

AbsentDoc ==
    [kind |-> "object",
     eventType |-> AbsentTok, eventTimestamp |-> AbsentTok, severity |-> AbsentTok,
     category |-> AbsentTok, subject |-> AbsentTok, body |-> AbsentTok,
     priority |-> AbsentTok, tags |-> AbsentMapTok, resource |-> AbsentResTok]

MalformedDoc == [AbsentDoc EXCEPT !.kind = "malformed"]   \* not JSON at all
NullDoc      == [AbsentDoc EXCEPT !.kind = "null"]        \* the text  null
NonObjectDoc == [AbsentDoc EXCEPT !.kind = "nonobject"]   \* e.g.  [] , "x" , 5

\* the tokens drawn for a key: null, well-typed values, a mistyped value
Variants(k) ==
    CASE k \in StringFields -> <<NullTok, StringTok("b"), NumberTok(2)>>
      [] k \in IntFields    -> <<NullTok, NumberTok(2), StringTok("b")>>
      [] k = "tags"         -> <<NullMapTok, ObjectMapTok({<<"k2", "v2">>}),
                                 ObjectMapTok({<<"k1", "v2">>}), OtherMapTok>>
      [] k = "resource"     ->
            <<NullResTok,
              ObjectResTok(StringTok("b"), AbsentTok, AbsentTok, AbsentMapTok),
              ObjectResTok(StringTok("b"), NumberTok(2), AbsentTok, AbsentMapTok),
              ObjectResTok(AbsentTok, AbsentTok, AbsentTok, ObjectMapTok({<<"k2", "v2">>})),
              OtherResTok>>

VariantIndex == 1..5

DocWith(S, f) ==
    [k \in EventFields \cup {"kind"} |->
        IF k = "kind" THEN "object"
        ELSE IF k \in S THEN Variants(k)[f[k]] ELSE AbsentDoc[k]]

ObjectDocs ==
    UNION {{DocWith(S, f) : f \in {g \in [S -> VariantIndex] :
                                      \A k \in S : g[k] <= Len(Variants(k))}} :
           S \in {T \in SUBSET EventFields : Cardinality(T) <= MaxKeys}}

MergeDocs == ObjectDocs \cup {MalformedDoc, NullDoc, NonObjectDoc}

----------------------------------------------------------------------------
(* encoding/json Unmarshal onto existing values.  Each operator yields the *)
(* stored value and whether an UnmarshalTypeError was saved; decoding       *)
(* carries on after a type error and reports it at the end.                 *)

Stored(v, e) == [v |-> v, err |-> e]

\* literalStore into a string: null is ignored, a string is stored
UnmarshalString(old, tok) ==
    CASE tok.t = "absent" -> Stored(old, FALSE)
      [] tok.t = "null"   -> Stored(old, FALSE)
      [] tok.t = "string" -> Stored(tok.s, FALSE)
      [] OTHER            -> Stored(old, TRUE)

\* literalStore into an int / int64: null is ignored, a number is stored
UnmarshalInt(old, tok) ==
    CASE tok.t = "absent" -> Stored(old, FALSE)
      [] tok.t = "null"   -> Stored(old, FALSE)
      [] tok.t = "number" -> Stored(tok.n, FALSE)
      [] OTHER            -> Stored(old, TRUE)

\* entries of the existing map are kept unless the object has the same key
Overlay(entries, members) ==
    {p \in entries : p[1] \notin MapKeys(members)} \cup members

\* a plausible slip: the map is replaced by the object instead of reused
UnmarshalMapReplace(old, tok) ==
    CASE tok.t = "absent" -> Stored(old, FALSE)
      [] tok.t = "null"   -> Stored(NilMap, FALSE)
      [] tok.t = "object" -> Stored(MakeMap(tok.o), FALSE)
      [] OTHER            -> Stored(old, TRUE)

\* object() into a map: a nil map is allocated, an existing one is reused;
\* null sets the map to nil
UnmarshalMap(old, tok) ==
    CASE tok.t = "absent" -> Stored(old, FALSE)
      [] tok.t = "null"   -> Stored(NilMap, FALSE)
      [] tok.t = "object" -> Stored(MakeMap(Overlay(old.m, tok.o)), FALSE)
      [] OTHER            -> Stored(old, TRUE)

\* decoding the members of a resource object into the Resource r
UnmarshalResourceFields(r, tok) ==
    LET name == UnmarshalString(r.resourceName, tok.resourceName)
        type == UnmarshalString(r.resourceType, tok.resourceType)
        inst == UnmarshalString(r.resourceInstance, tok.resourceInstance)
        tgs  == UnmarshalMap(r.tags, tok.tags)
    IN  Stored([nil |-> FALSE, resourceName |-> name.v, resourceType |-> type.v,
                resourceInstance |-> inst.v, tags |-> tgs.v],
               name.err \/ type.err \/ inst.err \/ tgs.err)

\* indirect(): a nil pointer is allocated before the value is looked at,
\* unless the value is null
Indirect(old) == IF old.nil THEN NewResource ELSE old

\* into a *Resource: null sets the pointer to nil, an object is decoded into
\* the Resource pointed to, anything else is a type error
UnmarshalResource(old, tok) ==
    CASE tok.t = "absent" -> Stored(old, FALSE)
      [] tok.t = "null"   -> Stored(NilResource, FALSE)
      [] tok.t = "object" -> UnmarshalResourceFields(Indirect(old), tok)
      [] OTHER            -> Stored(Indirect(old), TRUE)

UnmarshalField(f, old, tok) ==
    CASE f \in StringFields -> UnmarshalString(old, tok)
      [] f \in IntFields    -> UnmarshalInt(old, tok)
      [] f = "tags"         -> UnmarshalMap(old, tok)
      [] f = "resource"     -> UnmarshalResource(old, tok)

\* a plausible slip: decoding into a copy that is dropped when an error occurs
UnmarshalEventAtomic(e, doc) ==
    LET r == [f \in EventFields |-> UnmarshalField(f, e[f], doc[f])]
        failed == \E f \in EventFields : r[f].err
    IN  IF failed THEN Stored(e, TRUE)
        ELSE Stored([f \in EventFields |-> r[f].v], FALSE)

\* object() into the Event struct: every member is decoded into its field
UnmarshalEvent(e, doc) ==
    LET r == [f \in EventFields |-> UnmarshalField(f, e[f], doc[f])]
    IN  Stored([f \in EventFields |-> r[f].v], \E f \in EventFields : r[f].err)

\* json.Unmarshal(eventJSON, &event): the text is checked for syntax before
\* anything is stored; the text null only clears the local pointer
Unmarshal(e, doc) ==
    CASE doc.kind = "malformed" -> Stored(e, TRUE)
      [] doc.kind = "null"      -> Stored(e, FALSE)
      [] doc.kind = "nonobject" -> Stored(e, TRUE)
      [] doc.kind = "object"    -> UnmarshalEvent(e, doc)

----------------------------------------------------------------------------
(* Event.MergeWithJSON *)

InitMerge ==
    /\ event \in EventSamples
    /\ eventJSON \in MergeDocs
    /\ pre = event
    /\ mergeErr = FALSE
    /\ mpc = "ready"

\* func (event *Event) MergeWithJSON(eventJSON []byte) (err error)
MergeWithJSON ==
    /\ mpc = "ready"
    /\ LET r == Unmarshal(event, eventJSON)
       IN  /\ event' = r.v
           /\ mergeErr' = r.err
    /\ mpc' = "done"
    /\ UNCHANGED <<pre, eventJSON>>
    /\ UNCHANGED <<levelVars, sendVars>>

----------------------------------------------------------------------------
(* encoding/json Marshal of an Event: every field is tagged omitempty *)

\* a plausible slip: the omitempty option is missing from a string field
MarshalStringAlways(x) == StringTok(x)

MarshalString(x) == IF x = "" THEN AbsentTok ELSE StringTok(x)

MarshalInt(x) == IF x = 0 THEN AbsentTok ELSE NumberTok(x)

\* omitempty leaves out a nil map and a map without entries
MarshalMap(x) == IF x.nil \/ x.m = {} THEN AbsentMapTok ELSE ObjectMapTok(x.m)

\* a nil pointer is left out; a Resource pointed to is encoded as an object
MarshalResource(r) ==
    IF r.nil THEN AbsentResTok
    ELSE ObjectResTok(MarshalString(r.resourceName), MarshalString(r.resourceType),
                      MarshalString(r.resourceInstance), MarshalMap(r.tags))

\* an UnsupportedTypeError / UnsupportedValueError from a tag value
MarshalFails(e) ==
    \/ \E p \in e.tags.m : p[2] = Unsupported
    \/ \E p \in e.resource.tags.m : p[2] = Unsupported

MarshalField(f, v) ==
    CASE f \in StringFields -> MarshalString(v)
      [] f \in IntFields    -> MarshalInt(v)
      [] f = "tags"         -> MarshalMap(v)
      [] f = "resource"     -> MarshalResource(v)

\* json.Marshal(event)
Marshal(e) ==
    IF MarshalFails(e) THEN Stored(AbsentDoc, TRUE)
    ELSE Stored([k \in EventFields \cup {"kind"} |->
                    IF k = "kind" THEN "object" ELSE MarshalField(k, e[k])],
                FALSE)

----------------------------------------------------------------------------
(* ANS.Send *)

Calls == 1..MaxCalls

\* configured base URLs; the second one is rejected by url.Parse
URLs == {"https://ans.example", "%zz"}
ParsesAsURL(u) == u # "%zz"

\* what the auth-header provider may put into the header
Tokens == {"Bearer t1", "Bearer t2"}

\* status codes a backend may answer with
Statuses == {200, 202, 500}

\* events handed to Send
UnsupportedEvent == [EventWith({"subject", "tags"}) EXCEPT
                        !.tags = MakeMap({<<"k1", Unsupported>>})]
EmptyContainersEvent == [EventWith({"eventType", "priority"}) EXCEPT
                            !.tags = MakeMap({}), !.resource = NewResource]
SendEvents == {ZeroEvent, EventWith(EventFields), UnsupportedEvent, EmptyContainersEvent}

\* an http.Header: key -> values
HeaderKeys == {authHeaderKey, "Content-Type"}
EmptyHeader == [k \in HeaderKeys |-> <<>>]
HeaderGet(h, k) == IF Len(h[k]) = 0 THEN "" ELSE h[k][1]
HeaderAdd(h, k, v) == [h EXCEPT ![k] = Append(@, v)]

\* errors: kind, message parts in order, wrapped cause
NoError == [kind |-> "nil", msg |-> <<>>, cause |-> ""]
MarshalError   == [kind |-> "marshal", msg |-> <<"json: unsupported type">>, cause |-> ""]
AuthError      == [kind |-> "auth", msg |-> <<"fetching an access token failed">>, cause |-> ""]
RequestError   == [kind |-> "request", msg |-> <<"parse: invalid URL escape">>, cause |-> ""]
TransportError == [kind |-> "transport", msg |-> <<"connection refused">>, cause |-> ""]
BodyReadError  == "HTTP response body could not be read"

NoBody == [set |-> FALSE, doc |-> AbsentDoc]
NoRequest ==
    [sent |-> FALSE, method |-> "", url |-> "", header |-> EmptyHeader, body |-> AbsentDoc]
NoResponse == [received |-> FALSE, status |-> 0, readable |-> FALSE, body |-> ""]

Responses ==
    [received : {TRUE}, status : Statuses, readable : BOOLEAN, body : {"server error"}]

\* xsuaa.SetAuthHeaderIfNotPresent: adds an Authorization value when there is
\* none yet, or fails without touching the header
SetAuthHeaderIfNotPresent(h, outcome) ==
    IF outcome = "failed" THEN Stored(h, TRUE)
    ELSE IF Len(h[authHeaderKey]) > 0 THEN Stored(h, FALSE)
    ELSE Stored(HeaderAdd(h, authHeaderKey, outcome), FALSE)

\* body.ReadResponseBody: the whole body as text, or an I/O error
ReadResponseBody(resp) ==
    IF resp.readable THEN Stored(resp.body, FALSE) ELSE Stored("", TRUE)

\* a plausible slip: the request is built without the JSON content type
NewPostRequestNoContentType(entireUrl, body, h) ==
    [sent |-> TRUE, method |-> "POST", url |-> entireUrl,
     header |-> HeaderAdd(EmptyHeader, authHeaderKey, HeaderGet(h, authHeaderKey)),
     body |-> body]

\* http.NewRequest(http.MethodPost, entireUrl, requestBody) and the two
\* request.Header.Add calls
NewPostRequest(entireUrl, body, h) ==
    [sent |-> TRUE, method |-> "POST", url |-> entireUrl,
     header |-> HeaderAdd(HeaderAdd(EmptyHeader, authHeaderKey, HeaderGet(h, authHeaderKey)),
                          "Content-Type", "application/json"),
     body |-> body]

\* a plausible slip: every 2xx status is taken as success
IsAccepted2xx(status) == status >= 200 /\ status < 300

\* response.StatusCode != http.StatusAccepted
IsAccepted(status) == status = StatusAccepted

\* a plausible slip: the response body is read but left out of the message
StatusErrorNoBody(entireUrl, status, read) ==
    LET statusCodeError ==
            <<"ANS http request to '", entireUrl,
              "' failed. Did not get expected status code ", ToString(StatusAccepted),
              "; instead got ", ToString(status)>>
    IN  IF read.err
        THEN [kind |-> "status",
              msg |-> statusCodeError \o <<"; reading response body failed">>
                          \o <<": ", BodyReadError>>,
              cause |-> BodyReadError]
        ELSE [kind |-> "status", msg |-> statusCodeError, cause |-> ""]

\* the error built for a status other than 202
StatusError(entireUrl, status, read) ==
    LET statusCodeError ==
            <<"ANS http request to '", entireUrl,
              "' failed. Did not get expected status code ", ToString(StatusAccepted),
              "; instead got ", ToString(status)>>
    IN  IF read.err
        THEN [kind |-> "status",
              msg |-> statusCodeError \o <<"; reading response body failed">>
                          \o <<": ", BodyReadError>>,
              cause |-> BodyReadError]
        ELSE [kind |-> "status",
              msg |-> statusCodeError \o <<"; response body: ", read.v>>,
              cause |-> ""]

\* a plausible slip: the provider's error is logged and the call carries on
AfterAuthIgnoreError(failed) == "prepared"

\* if err != nil { return err } after SetAuthHeaderIfNotPresent
AfterAuth(failed) == IF failed THEN "done" ELSE "prepared"

\* a plausible slip: a failed request is tried once more
AfterDoRetry(received, attempt) ==
    IF received THEN "responded" ELSE IF attempt < 2 THEN "prepared" ELSE "done"

\* if err != nil { return err } after httpClient.Do
AfterDo(received, attempt) == IF received THEN "responded" ELSE "done"

InitCalls ==
    /\ pc = [c \in Calls |-> "idle"]
    /\ sendEvent = [c \in Calls |-> ZeroEvent]
    /\ requestBody = [c \in Calls |-> NoBody]
    /\ header = [c \in Calls |-> EmptyHeader]
    /\ authResult = [c \in Calls |-> "none"]
    /\ request = [c \in Calls |-> NoRequest]
    /\ response = [c \in Calls |-> NoResponse]
    /\ bodyReads = [c \in Calls |-> 0]
    /\ err = [c \in Calls |-> NoError]
    /\ nSent = [c \in Calls |-> 0]

InitSend ==
    /\ url \in URLs
    /\ InitCalls

\* Send is entered with an event; json.Marshal fails
SendMarshalFails(c) ==
    /\ pc[c] = "idle"
    /\ \E e \in SendEvents :
          /\ Marshal(e).err
          /\ sendEvent' = [sendEvent EXCEPT ![c] = e]
    /\ err' = [err EXCEPT ![c] = MarshalError]
    /\ pc' = [pc EXCEPT ![c] = "done"]
    /\ UNCHANGED <<url, requestBody, header, authResult, request, response,
                   bodyReads, nSent>>
    /\ UNCHANGED <<levelVars, mergeVars>>

\* Send is entered with an event; it is marshalled and the auth-header
\* provider is asked to fill a fresh header
SendPrepare(c) ==
    /\ pc[c] = "idle"
    /\ \E e \in SendEvents, outcome \in Tokens \cup {"failed"} :
          LET body == Marshal(e)
              auth == SetAuthHeaderIfNotPresent(EmptyHeader, outcome)
          IN  /\ ~body.err
              /\ sendEvent' = [sendEvent EXCEPT ![c] = e]
              /\ requestBody' = [requestBody EXCEPT ![c] = [set |-> TRUE, doc |-> body.v]]
              /\ header' = [header EXCEPT ![c] = auth.v]
              /\ authResult' = [authResult EXCEPT ![c] = IF auth.err THEN "failed" ELSE "ok"]
              /\ err' = [err EXCEPT ![c] = IF AfterAuth(auth.err) = "done"
                                           THEN AuthError ELSE NoError]
              /\ pc' = [pc EXCEPT ![c] = AfterAuth(auth.err)]
    /\ UNCHANGED <<url, request, response, bodyReads, nSent>>
    /\ UNCHANGED <<levelVars, mergeVars>>

\* http.NewRequest rejects the URL
SendNewRequestFails(c) ==
    /\ pc[c] = "prepared"
    /\ ~ParsesAsURL(url)
    /\ err' = [err EXCEPT ![c] = RequestError]
    /\ pc' = [pc EXCEPT ![c] = "done"]
    /\ UNCHANGED <<url, sendEvent, requestBody, header, authResult, request,
                   response, bodyReads, nSent>>
    /\ UNCHANGED <<levelVars, mergeVars>>

\* the request is built and httpClient.Do issues it; the transport fails or
\* a response comes back
SendDo(c) ==
    /\ pc[c] = "prepared"
    /\ ParsesAsURL(url)
    /\ request' = [request EXCEPT ![c] =
                      NewPostRequest(url \o eventPath, requestBody[c].doc, header[c])]
    /\ nSent' = [nSent EXCEPT ![c] = @ + 1]
    /\ \E resp \in Responses \cup {NoResponse} :
          /\ response' = [response EXCEPT ![c] = resp]
          /\ err' = [err EXCEPT ![c] = IF AfterDo(resp.received, nSent'[c]) = "responded"
                                       THEN NoError ELSE TransportError]
          /\ pc' = [pc EXCEPT ![c] = AfterDo(resp.received, nSent'[c])]
    /\ UNCHANGED <<url, sendEvent, requestBody, header, authResult, bodyReads>>
    /\ UNCHANGED <<levelVars, mergeVars>>

\* the status is 202: Send returns nil
SendAccepted(c) ==
    /\ pc[c] = "responded"
    /\ IsAccepted(response[c].status)
    /\ err' = [err EXCEPT ![c] = NoError]
    /\ pc' = [pc EXCEPT ![c] = "done"]
    /\ UNCHANGED <<url, sendEvent, requestBody, header, authResult, request,
                   response, bodyReads, nSent>>
    /\ UNCHANGED <<levelVars, mergeVars>>

\* any other status: the body is read and the error is built
SendRejected(c) ==
    /\ pc[c] = "responded"
    /\ ~IsAccepted(response[c].status)
    /\ bodyReads' = [bodyReads EXCEPT ![c] = @ + 1]
    /\ err' = [err EXCEPT ![c] =
                  StatusError(request[c].url, response[c].status,
                              ReadResponseBody(response[c]))]
    /\ pc' = [pc EXCEPT ![c] = "done"]
    /\ UNCHANGED <<url, sendEvent, requestBody, header, authResult, request,
                   response, nSent>>
    /\ UNCHANGED <<levelVars, mergeVars>>

----------------------------------------------------------------------------
(* TranslateLogrusLogLevel applied to a drawn level *)

InitLevel ==
    /\ level \in Levels
    /\ severity = ""
    /\ category = ""
    /\ translated = FALSE

Translate ==
    /\ ~translated
    /\ severity' = TranslateLogrusLogLevel(level)[1]
    /\ category' = TranslateLogrusLogLevel(level)[2]
    /\ translated' = TRUE
    /\ UNCHANGED level
    /\ UNCHANGED <<mergeVars, sendVars>>

----------------------------------------------------------------------------
(* Specifications *)

\* the parts of the state a specification does not exercise
LevelUnused == level = InfoLevel /\ severity = "" /\ category = "" /\ translated = FALSE
MergeUnused ==
    /\ event = ZeroEvent /\ pre = ZeroEvent /\ eventJSON = AbsentDoc
    /\ mergeErr = FALSE /\ mpc = "ready"
SendUnused == url = "https://ans.example" /\ InitCalls

InitL == InitLevel /\ MergeUnused /\ SendUnused
NextL == Translate
SpecLevel == InitL /\ [][NextL]_vars

InitM == InitMerge /\ LevelUnused /\ SendUnused
NextM == MergeWithJSON
SpecMerge == InitM /\ [][NextM]_vars

InitS == InitSend /\ LevelUnused /\ MergeUnused
NextS ==
    \/ \E c \in Calls : SendMarshalFails(c)
    \/ \E c \in Calls : SendPrepare(c)
    \/ \E c \in Calls : SendNewRequestFails(c)
    \/ \E c \in Calls : SendDo(c)
    \/ \E c \in Calls : SendAccepted(c)
    \/ \E c \in Calls : SendRejected(c)
SpecSend == InitS /\ [][NextS]_vars

----------------------------------------------------------------------------
(* Properties of ANS.Send, checked under SpecSend *)

Returned(c) == pc[c] = "done"
InMessage(e, part) == \E i \in 1..Len(e.msg) : e.msg[i] = part

\* C1: a Send that has returned returned no error if and only if the event
\* was serialized, the auth-header provider succeeded, the request was
\* issued, a response was received and its status is exactly 202; every
\* other outcome is an error.
C1_SuccessIffAccepted ==
    \A c \in Calls :
        Returned(c) =>
            /\ err[c] = NoError <=>
                  /\ requestBody[c].set
                  /\ authResult[c] = "ok"
                  /\ request[c].sent
                  /\ response[c].received
                  /\ response[c].status = 202
            /\ err[c] # NoError <=> err[c].kind \in {"marshal", "auth", "request",
                                                    "transport", "status"}

C1_Witness ==
    \E c, d \in Calls :
        /\ Returned(c) /\ err[c] = NoError /\ response[c].status = 202
        /\ Returned(d) /\ err[d] # NoError /\ response[d].status = 200

\* C2: when the auth-header provider fails, Send returns that error and no
\* request is issued; a call that has issued a request has had the provider
\* succeed before.
C2_AuthBeforeRequest ==
    \A c \in Calls :
        /\ authResult[c] = "failed" =>
              Returned(c) /\ err[c] = AuthError /\ nSent[c] = 0 /\ ~request[c].sent
        /\ (nSent[c] > 0 \/ request[c].sent) => authResult[c] = "ok"

C2_Witness ==
    \E c, d \in Calls :
        /\ Returned(c) /\ authResult[c] = "failed" /\ nSent[c] = 0
        /\ authResult[d] = "ok" /\ nSent[d] = 1

\* C3: every request issued by Send is a POST to the base URL followed by
\* /cf/producer/v1/resource-events, carries as its only Authorization value
\* the one the provider put into the header, has the content type
\* application/json and the serialization of the event of that call as body.
C3_RequestShape ==
    \A c \in Calls :
        request[c].sent =>
            /\ request[c].method = "POST"
            /\ request[c].url = url \o "/cf/producer/v1/resource-events"
            /\ header[c]["Authorization"] \in {<<t>> : t \in Tokens}
            /\ request[c].header["Authorization"] = header[c]["Authorization"]
            /\ request[c].header["Content-Type"] = <<"application/json">>
            /\ requestBody[c].set
            /\ request[c].body = requestBody[c].doc
            /\ request[c].body = Marshal(sendEvent[c]).v

C3_Witness ==
    \E c \in Calls :
        /\ request[c].sent
        /\ sendEvent[c] = EventWith(EventFields)
        /\ request[c].header["Authorization"] = <<"Bearer t2">>

\* C4: after a response with a status other than 202 the body has been read
\* exactly once and the error names the request URL, 202 and the status
\* received; it carries the body text when the read succeeded, and the note
\* that reading failed together with the read error as cause when it did not.
C4_StatusErrorMessage ==
    \A c \in Calls :
        /\ bodyReads[c] <= 1
        /\ (Returned(c) /\ response[c].received /\ response[c].status # 202) =>
              /\ bodyReads[c] = 1
              /\ err[c].kind = "status"
              /\ InMessage(err[c], url \o "/cf/producer/v1/resource-events")
              /\ InMessage(err[c], "202")
              /\ InMessage(err[c], ToString(response[c].status))
              /\ response[c].readable =>
                    InMessage(err[c], response[c].body) /\ err[c].cause = ""
              /\ ~response[c].readable =>
                    /\ InMessage(err[c], "; reading response body failed")
                    /\ err[c].cause = BodyReadError
                    /\ InMessage(err[c], BodyReadError)
        /\ (Returned(c) /\ response[c].received /\ response[c].status = 202) =>
              bodyReads[c] = 0

C4_Witness ==
    \E c, d \in Calls :
        /\ Returned(c) /\ response[c].status = 500 /\ response[c].readable
        /\ InMessage(err[c], "server error")
        /\ Returned(d) /\ response[d].status = 500 /\ ~response[d].readable
        /\ response[d].received /\ err[d].cause = BodyReadError

ResourceIsZero(r) == r.nil
MapIsZero(x) == x.nil

\* C8: the body put on the wire has a key only for a field that is not at
\* its zero value: no empty string, zero number, nil map or nil resource is
\* emitted, for the event and for its resource.
C8_OmitsZeroValues ==
    \A c \in Calls :
        request[c].sent =>
            LET b == request[c].body
                e == sendEvent[c]
            IN  /\ \A f \in StringFields : b[f].t # "absent" => e[f] # ""
                /\ \A f \in IntFields : b[f].t # "absent" => e[f] # 0
                /\ b.tags.t # "absent" => ~MapIsZero(e.tags)
                /\ b.resource.t # "absent" => ~ResourceIsZero(e.resource)
                /\ b.resource.t # "absent" =>
                      /\ \A f \in ResourceStringFields :
                            b.resource[f].t # "absent" => e.resource[f] # ""
                      /\ b.resource.tags.t # "absent" => ~MapIsZero(e.resource.tags)

C8_Witness ==
    \E c, d \in Calls :
        /\ request[c].sent /\ sendEvent[c] = EmptyContainersEvent
        /\ request[c].body.resource.t = "object"
        /\ request[c].body.subject.t = "absent"
        /\ request[c].body.eventType.t = "string"
        /\ request[d].sent /\ sendEvent[d] = ZeroEvent

RECURSIVE Total(_, _)
Total(f, S) == IF S = {} THEN 0
               ELSE LET c == CHOOSE x \in S : TRUE IN f[c] + Total(f, S \ {c})

Entered == {c \in Calls : pc[c] # "idle"}

\* C9: no step changes the configured URL, no call issues a second request,
\* a call that failed in serialization or in the auth provider has issued
\* none, and the requests issued never outnumber the calls entered.
C9_AtMostOneRequest ==
    [][/\ url' = url
       /\ \A c \in Calls :
             /\ nSent'[c] <= 1
             /\ nSent'[c] >= nSent[c]
             /\ err'[c].kind \in {"marshal", "auth"} => nSent'[c] = 0
             /\ (Returned(c) /\ nSent[c] = 1) => nSent'[c] = 1
       /\ Total(nSent', Calls) <= Cardinality(Entered')]_vars

C9_Witness ==
    \E c, d \in Calls :
        /\ Returned(c) /\ err[c] = TransportError /\ nSent[c] = 1
        /\ Returned(d) /\ err[d].kind = "status" /\ nSent[d] = 1

----------------------------------------------------------------------------
(* Properties of TranslateLogrusLogLevel, checked under SpecLevel *)

\* C6: the translation agrees with the table for every level: Info and
\* Debug give INFO/NOTIFICATION, Warn gives WARNING/ALERT, Error gives
\* ERROR/EXCEPTION, Fatal and Panic give FATAL/EXCEPTION, and every other
\* level (Trace, values out of range) gives INFO/NOTIFICATION.
C6_TranslationTable ==
    translated =>
        /\ level = 4 => severity = "INFO" /\ category = "NOTIFICATION"
        /\ level = 5 => severity = "INFO" /\ category = "NOTIFICATION"
        /\ level = 3 => severity = "WARNING" /\ category = "ALERT"
        /\ level = 2 => severity = "ERROR" /\ category = "EXCEPTION"
        /\ level = 1 => severity = "FATAL" /\ category = "EXCEPTION"
        /\ level = 0 => severity = "FATAL" /\ category = "EXCEPTION"
        /\ level >= 6 => severity = "INFO" /\ category = "NOTIFICATION"

C6_Witness ==
    /\ translated
    /\ level > DebugLevel + 1
    /\ severity = "INFO" /\ category = "NOTIFICATION"

LevelsMappedTo(sev, cat) ==
    {l \in Levels : TranslateLogrusLogLevel(l) = <<sev, cat>>}

\* C7 as stated: two levels map to WARNING/ALERT and three levels map to
\* FATAL/EXCEPTION.
C7_TwoWarningThreeFatal ==
    translated =>
        /\ Cardinality(LevelsMappedTo("WARNING", "ALERT")) = 2
        /\ Cardinality(LevelsMappedTo("FATAL", "EXCEPTION")) = 3

\* C7 amended: exactly one level, Warn, maps to WARNING/ALERT; exactly two
\* levels, Fatal and Panic, map to FATAL/EXCEPTION; Error maps to
\* ERROR/EXCEPTION, so three levels share the category EXCEPTION.
C7_OneWarningTwoFatal ==
    translated =>
        /\ (severity = "WARNING" /\ category = "ALERT") <=> level = WarnLevel
        /\ (severity = "FATAL" /\ category = "EXCEPTION") <=> level \in {FatalLevel, PanicLevel}
        /\ category = "EXCEPTION" <=> level \in {ErrorLevel, FatalLevel, PanicLevel}
        /\ level = ErrorLevel => severity = "ERROR"
        /\ LevelsMappedTo("WARNING", "ALERT") = {WarnLevel}
        /\ LevelsMappedTo("FATAL", "EXCEPTION") = {FatalLevel, PanicLevel}

C7_Witness ==
    /\ translated
    /\ level = ErrorLevel
    /\ severity = "ERROR" /\ category = "EXCEPTION"

----------------------------------------------------------------------------
(* Properties of Event.MergeWithJSON, checked under SpecMerge *)

Merged == mpc = "done"
Present(tok) == tok.t # "absent"

\* the Go value a non-null token denotes on its own
Given(f, tok) ==
    CASE f \in StringFields -> tok.s
      [] f \in IntFields    -> tok.n
      [] f = "tags"         -> MakeMap(tok.o)
      [] f = "resource"     ->
            [nil |-> FALSE,
             resourceName |-> tok.resourceName.s,
             resourceType |-> tok.resourceType.s,
             resourceInstance |-> tok.resourceInstance.s,
             tags |-> IF tok.tags.t = "object" THEN MakeMap(tok.tags.o) ELSE NilMap]

\* C5 as stated: after a successful merge every field whose key is present
\* holds the value given in the document, and every field whose key is
\* absent holds its previous value.
C5_PresentFieldsHoldGivenValue ==
    (Merged /\ ~mergeErr /\ eventJSON.kind = "object") =>
        \A f \in EventFields :
            /\ ~Present(eventJSON[f]) => event[f] = pre[f]
            /\ (Present(eventJSON[f]) /\ eventJSON[f].t # "null") =>
                  event[f] = Given(f, eventJSON[f])

\* a map after an object was decoded onto it: the object's members, and the
\* previous entries under keys the object does not have
MapMerged(new, old, tok) ==
    /\ ~new.nil
    /\ tok.o \subseteq new.m
    /\ new.m \subseteq old.m \cup tok.o
    /\ \A p \in old.m : (\A q \in tok.o : q[1] # p[1]) => p \in new.m
    /\ \A p \in old.m : (\E q \in tok.o : q[1] = p[1]) => (p \in new.m <=> p \in tok.o)

MapFieldMerged(new, old, tok) ==
    /\ tok.t = "absent" => new = old
    /\ tok.t = "null" => new = NilMap
    /\ tok.t = "object" => MapMerged(new, old, tok)

StringFieldMerged(new, old, tok) ==
    /\ tok.t \in {"absent", "null"} => new = old
    /\ tok.t = "string" => new = tok.s

IntFieldMerged(new, old, tok) ==
    /\ tok.t \in {"absent", "null"} => new = old
    /\ tok.t = "number" => new = tok.n

\* C5 amended: after a successful merge of a JSON object, a field whose key
\* is absent keeps its value; a string or number field holds the value
\* given, or keeps its value when the document gives null; a tags map given
\* as an object keeps its previous entries and takes the object's members
\* over them, and is nil when given null; a resource given as an object is
\* merged member by member into the existing resource (a fresh one when it
\* was nil), and is nil when given null.  The text null leaves the event
\* unchanged.
C5_MergeSemantics ==
    (Merged /\ ~mergeErr) =>
        /\ eventJSON.kind \in {"null", "object"}
        /\ eventJSON.kind = "null" => event = pre
        /\ eventJSON.kind = "object" =>
              /\ \A f \in StringFields : StringFieldMerged(event[f], pre[f], eventJSON[f])
              /\ \A f \in IntFields : IntFieldMerged(event[f], pre[f], eventJSON[f])
              /\ MapFieldMerged(event.tags, pre.tags, eventJSON.tags)
              /\ eventJSON.resource.t = "absent" => event.resource = pre.resource
              /\ eventJSON.resource.t = "null" => event.resource = NilResource
              /\ eventJSON.resource.t = "object" =>
                    LET old == IF pre.resource.nil THEN NewResource ELSE pre.resource
                    IN  /\ ~event.resource.nil
                        /\ \A f \in ResourceStringFields :
                              StringFieldMerged(event.resource[f], old[f],
                                                eventJSON.resource[f])
                        /\ MapFieldMerged(event.resource.tags, old.tags,
                                          eventJSON.resource.tags)

C5_Witness ==
    /\ Merged /\ ~mergeErr
    /\ eventJSON.tags.t = "object"
    /\ eventJSON.subject.t = "string"
    /\ \E p \in pre.tags.m : p \in event.tags.m /\ p \notin eventJSON.tags.o
    /\ event.tags.m # eventJSON.tags.o
    /\ event.subject = "b" /\ pre.subject = "a"
    /\ event.body = "a"

\* C10 as stated: whenever MergeWithJSON returns an error the event equals
\* its value before the call.
C10_ErrorLeavesEventUnchanged ==
    (Merged /\ mergeErr) => event = pre

WellTyped(f, tok) ==
    \/ f \in StringFields /\ tok.t = "string"
    \/ f \in IntFields /\ tok.t = "number"

\* C10 amended: when MergeWithJSON returns an error for a text that is not
\* JSON or whose top-level value is neither an object nor null, the event
\* equals its value before the call.  When the error comes from a member of
\* the wrong type inside a JSON object, the merge is partial: string and
\* number fields given a value of their type hold that value, fields whose
\* key is absent and string and number fields given a value of the wrong
\* type keep their value, and a nil resource given a value that is neither
\* an object nor null has become an empty resource.
C10_ErrorMergesPartially ==
    (Merged /\ mergeErr) =>
        /\ eventJSON.kind \in {"malformed", "nonobject"} => event = pre
        /\ eventJSON.kind # "null"
        /\ eventJSON.kind = "object" =>
              /\ \A f \in EventFields : ~Present(eventJSON[f]) => event[f] = pre[f]
              /\ \A f \in ScalarFields :
                    /\ WellTyped(f, eventJSON[f]) => event[f] = Given(f, eventJSON[f])
                    /\ ~WellTyped(f, eventJSON[f]) => event[f] = pre[f]
              /\ eventJSON.tags.t = "other" => event.tags = pre.tags
              /\ eventJSON.resource.t = "other" =>
                    event.resource = IF pre.resource.nil THEN NewResource
                                     ELSE pre.resource
              /\ \/ \E f \in ScalarFields :
                        Present(eventJSON[f]) /\ eventJSON[f].t # "null"
                                              /\ ~WellTyped(f, eventJSON[f])
                 \/ eventJSON.tags.t = "other"
                 \/ eventJSON.resource.t = "other"
                 \/ /\ eventJSON.resource.t = "object"
                    /\ \E f \in ResourceStringFields :
                          eventJSON.resource[f].t = "number"

C10_Witness ==
    /\ Merged /\ mergeErr
    /\ eventJSON.kind = "object"
    /\ eventJSON.subject.t = "string" /\ eventJSON.priority.t = "string"
    /\ pre.subject = "a" /\ event.subject = "b"
    /\ event.priority = pre.priority
    /\ event # pre

====
